---- MODULE Spec2Model ----
(***************************************************************************)
(* Zembil: the download queue (Queue, persisted in queue.json), its        *)
(* per-item processing loop, and the package cache (Cache over the SQLite  *)
(* table `packages` plus the packages/, docs/ and examples/ directories).  *)
(*                                                                         *)
(* Queue and Database live in src/src/core/database.ts, Cache in           *)
(* src/src/cli.ts (second half of the file).                               *)
(***************************************************************************)
EXTENDS Integers, Sequences, FiniteSets, TLC

(***************************************************************************)
(* Bounds of the model.                                                    *)
(***************************************************************************)
\* number of queue ids Queue.generateId hands out in one behaviour
MaxAdds == 2
\* priorities range over 0..MaxPriority
MaxPriority == 1
\* timestamps (Date.now(), milliseconds) range over 0..MaxClock
MaxClock == 1

(***************************************************************************)
(* Input domains.                                                          *)
(***************************************************************************)
\* package names and version strings are held as their sequence of characters
NameA == <<"a">>
NameB == <<"b">>
V1_0_0 == <<"1", ".", "0", ".", "0">>
Names == {NameA, NameB}
Versions == {V1_0_0}
Managers == {"npm", "pip"}

\* the (name, version, manager) triples the client works with
Packages ==
  { [name |-> NameA, version |-> V1_0_0, manager |-> "npm"],
    [name |-> NameA, version |-> V1_0_0, manager |-> "pip"] }

\* the packages a client hands to Cache.add directly
CachePackages ==
  Packages \cup { [name |-> NameB, version |-> V1_0_0, manager |-> "npm"] }

Priorities == 0..MaxPriority
QueueIds == 1..MaxAdds

\* artifact bytes a client may hand to Cache.add
Contents == { <<1>>, <<2, 2>> }

Times == 0..MaxClock

\* messages of the errors a package source / the filesystem may throw
UpstreamErrors == {"E404"}
StorageErrors == {"ENOSPC"}

NoPkg == [name |-> <<>>, version |-> <<>>, manager |-> ""]

VARIABLES
  queueFile,     \* content of <cacheDir>/queue.json
  nextId,        \* next fresh queue id (Queue.generateId)
  adds,          \* Queue.add calls that were started without being awaited
  adding,        \* the Cache.add call that is between two of its awaits
  other,         \* a second process() call on the same queue file
  lastCall,      \* the last client call and what it returned
  pc,            \* position of the process() call
  queue,         \* process(): the array loaded at its start
  pendingItems,  \* process(): indices into queue of the items to handle
  cur,           \* process(): position in pendingItems
  result,        \* process(): the SyncResult being built
  thrown,        \* process(): message of the error in flight
  outcome,       \* history: what happened to each item of the current pass
  fetched,       \* history: number of fetches from a package source per id
  warnings,      \* history: what console.warn reported for the item in hand
  requests,      \* history: packages that install calls asked a registry for
  ids,           \* history: the first id Cache.add returned for each package
  db,            \* rows of the SQLite table `packages`
  pkgFiles,      \* <cacheDir>/packages : cache id -> artifact bytes
  docsDirs,      \* <cacheDir>/docs     : set of cache ids
  exDirs,        \* <cacheDir>/examples : set of cache ids
  temp           \* temporary download copies under ./temp

flightVars == <<adding, other>>
queueVars == <<queueFile, nextId, adds, flightVars>>
procVars == <<pc, queue, pendingItems, cur, result, thrown, outcome>>
cacheVars == <<db, pkgFiles, docsDirs, exDirs>>
histVars == <<fetched, warnings, requests, ids>>
vars == <<queueFile, nextId, adds, adding, other, lastCall, pc, queue, pendingItems, cur,
          result, thrown, outcome, fetched, warnings, requests, ids, db, pkgFiles, docsDirs, exDirs,
          temp>>

(***************************************************************************)
(* Queue file.                                                             *)
(***************************************************************************)
\* Date.prototype.toJSON: the ISO string of a Date (millisecond precision,
\* the precision of the Date itself)
toJSON(date) == <<"iso", date>>

\* new Date(isoString)
parseDate(string) == string[2]

\* stringifyItem, had it left the error message out
stringifyItemWithoutError(item) ==
  [id |-> item.id, packageName |-> item.packageName, version |-> item.version,
   manager |-> item.manager, priority |-> item.priority,
   queuedAt |-> toJSON(item.queuedAt), status |-> item.status]

\* JSON.stringify of one QueueItem: queuedAt becomes a string, an undefined
\* error (held as "") is left out
stringifyItem(item) ==
  IF item.error = ""
  THEN [id |-> item.id, packageName |-> item.packageName, version |-> item.version,
        manager |-> item.manager, priority |-> item.priority,
        queuedAt |-> toJSON(item.queuedAt), status |-> item.status]
  ELSE [id |-> item.id, packageName |-> item.packageName, version |-> item.version,
        manager |-> item.manager, priority |-> item.priority,
        queuedAt |-> toJSON(item.queuedAt), status |-> item.status,
        error |-> item.error]

\* loadQueue lines 474-477: { ...item, queuedAt: new Date(item.queuedAt) };
\* a missing error reads as undefined
parseItem(json) ==
  [id |-> json.id, packageName |-> json.packageName, version |-> json.version,
   manager |-> json.manager, priority |-> json.priority,
   queuedAt |-> parseDate(json.queuedAt), status |-> json.status,
   error |-> IF "error" \in DOMAIN json THEN json.error ELSE ""]

\* loadQueue, had it read what it can from a file that does not parse
loadQueueLenient(file) ==
  IF file.items # <<>>
  THEN [i \in 1..Len(file.items) |-> parseItem(file.items[i])]
  ELSE <<>>

\* Queue.loadQueue: a file that cannot be read or parsed loads as [].
loadQueue(file) ==
  IF file.valid /\ file.items # <<>>
  THEN [i \in 1..Len(file.items) |-> parseItem(file.items[i])]
  ELSE <<>>

\* Queue.saveQueue: the whole array is written as one JSON document.
saveQueue(q) ==
  [valid |-> TRUE,
   items |-> IF q = <<>> THEN <<>> ELSE [i \in 1..Len(q) |-> stringifyItem(q[i])]]

\* Queue.initialize: ensureFile creates an empty file; loadQueue then yields
\* [] which is truthy, so nothing is written and the file stays empty.
InitialQueueFile == [valid |-> FALSE, items |-> <<>>]

PkgOf(item) ==
  [name |-> item.packageName, version |-> item.version, manager |-> item.manager]

\* find / findIndex: the first of the indices that satisfy the test, 0 for
\* "not found"
FirstIndex(matching) ==
  IF matching = {} THEN 0
  ELSE CHOOSE i \in matching : \A j \in matching : i <= j

\* existing, had the test compared the entry with itself: nothing blocks
existingNever(q, pkg) ==
  LET Same(item) == item.packageName # item.packageName
  IN FirstIndex({ i \in 1..Len(q) : Same(q[i]) })

\* existing, had the test looked at pending entries only
existingPendingOnly(q, pkg) ==
  LET Same(item) == /\ item.packageName = pkg.name
                    /\ item.version = pkg.version
                    /\ item.manager = pkg.manager
                    /\ item.status = "pending"
  IN FirstIndex({ i \in 1..Len(q) : Same(q[i]) })

\* Queue.add, lines 297-301: the entry that blocks a new add
existing(q, pkg) ==
  LET Same(item) == /\ item.packageName = pkg.name
                    /\ item.version = pkg.version
                    /\ item.manager = pkg.manager
  IN FirstIndex({ i \in 1..Len(q) : Same(q[i]) })

\* compare, had the priorities been subtracted the other way round
compareAscending(a, b) ==
  IF a.priority - b.priority # 0 THEN a.priority - b.priority
  ELSE a.queuedAt - b.queuedAt

\* Queue.list line 336, the comparator:
\* b.priority - a.priority || a.queuedAt.getTime() - b.queuedAt.getTime()
compare(a, b) ==
  IF b.priority - a.priority # 0 THEN b.priority - a.priority
  ELSE a.queuedAt - b.queuedAt

\* Array.prototype.sort with that comparator (stable): x goes behind every
\* element that does not compare above it
insertSorted(sorted, x) ==
  LET behind == { i \in 1..Len(sorted) : compare(sorted[i], x) <= 0 }
      k == Cardinality({ i \in 1..Len(sorted) : \A j \in 1..i : j \in behind })
  IN SubSeq(sorted, 1, k) \o <<x>> \o SubSeq(sorted, k + 1, Len(sorted))

\* Queue.list: the loaded queue, sorted
queueList(file) ==
  LET q == loadQueue(file)
      S[i \in 0..Len(q)] == IF i = 0 THEN <<>> ELSE insertSorted(S[i - 1], q[i])
  IN S[Len(q)]

\* queue.filter(item => item.status === status).length
filterLength(q, status) == Len(SelectSeq(q, LAMBDA item : item.status = status))

\* getStatus, had it taken every entry that is not completed for pending
getStatusPendingUnlessCompleted(file) ==
  LET q == loadQueue(file)
  IN [pending |-> Len(q) - filterLength(q, "completed"),
      downloading |-> filterLength(q, "downloading"),
      completed |-> filterLength(q, "completed"),
      failed |-> filterLength(q, "failed")]

\* Queue.getStatus
getStatus(file) ==
  LET q == loadQueue(file)
  IN [pending |-> filterLength(q, "pending"),
      downloading |-> filterLength(q, "downloading"),
      completed |-> filterLength(q, "completed"),
      failed |-> filterLength(q, "failed")]

\* RemoveAt, had splice cut from the index to the end
RemoveFrom(q, i) == SubSeq(q, 1, i - 1)

\* queue.splice(index, 1)
RemoveAt(q, i) == SubSeq(q, 1, i - 1) \o SubSeq(q, i + 1, Len(q))

NoCall == [op |-> "none", pkg |-> NoPkg, id |-> 0, ok |-> TRUE]

ZeroResult == [success |-> TRUE, downloaded |-> 0, failed |-> 0, errors |-> <<>>]

Quiescent == {"idle", "done", "aborted"}

\* no item of the pass has been handled yet
NoOutcome == [i \in QueueIds |-> ""]

\* locals of a process() call that has returned (or died) are gone
ProcIdle ==
  /\ pc' = "idle"
  /\ queue' = <<>>
  /\ pendingItems' = <<>>
  /\ cur' = 0
  /\ result' = ZeroResult
  /\ thrown' = ""
  /\ outcome' = NoOutcome

\* no Cache.add call is in flight
NoAdding == [stage |-> "none"]

\* no second process() call is running
NoOther == [pc |-> "idle"]

Init ==
  /\ queueFile = InitialQueueFile
  /\ nextId = 1
  /\ adds = {}
  /\ adding = NoAdding
  /\ other = NoOther
  /\ lastCall = NoCall
  /\ pc = "idle"
  /\ queue = <<>>
  /\ pendingItems = <<>>
  /\ cur = 0
  /\ result = ZeroResult
  /\ thrown = ""
  /\ outcome = NoOutcome
  /\ fetched = [i \in QueueIds |-> 0]
  /\ warnings = {}
  /\ requests = {}
  /\ ids = {}
  /\ db = {}
  /\ pkgFiles = {}
  /\ docsDirs = {}
  /\ exDirs = {}
  /\ temp = {}

(***************************************************************************)
(* Queue.add / remove / clear, called while no process() is in flight.     *)
(***************************************************************************)
\* now: the value of new Date() during the call; the clock never runs
\* backwards, so it is not below any timestamp already stored
Add(pkg, priority, now) ==
  /\ pc \in Quiescent
  /\ \A i \in 1..Len(loadQueue(queueFile)) : loadQueue(queueFile)[i].queuedAt <= now
  /\ LET q == loadQueue(queueFile)
         queueItem == [id |-> nextId, packageName |-> pkg.name,
                       version |-> pkg.version, manager |-> pkg.manager,
                       priority |-> priority, queuedAt |-> now,
                       status |-> "pending", error |-> ""]
     IN IF existing(q, pkg) # 0
        THEN /\ lastCall' = [op |-> "add", pkg |-> pkg, id |-> 0, ok |-> FALSE]
             /\ UNCHANGED <<queueFile, nextId, adds, flightVars>>
        ELSE /\ nextId <= MaxAdds
             /\ queueFile' = saveQueue(Append(q, queueItem))
             /\ nextId' = nextId + 1
             /\ UNCHANGED <<adds, flightVars>>
             /\ lastCall' = [op |-> "add", pkg |-> pkg, id |-> nextId, ok |-> TRUE]
  /\ ProcIdle
  /\ UNCHANGED <<histVars, cacheVars, temp>>

Remove(id) ==
  /\ pc \in Quiescent
  /\ LET q == loadQueue(queueFile)
         index == FirstIndex({ i \in 1..Len(q) : q[i].id = id })
     IN IF index = 0
        THEN /\ lastCall' = [op |-> "remove", pkg |-> NoPkg, id |-> id, ok |-> FALSE]
             /\ UNCHANGED queueFile
        ELSE /\ queueFile' = saveQueue(RemoveAt(q, index))
             /\ lastCall' = [op |-> "remove", pkg |-> NoPkg, id |-> id, ok |-> TRUE]
  /\ ProcIdle
  /\ UNCHANGED <<nextId, adds, flightVars, histVars, cacheVars, temp>>

Clear ==
  /\ pc \in Quiescent
  /\ queueFile' = saveQueue(<<>>)
  /\ lastCall' = [op |-> "clear", pkg |-> NoPkg, id |-> 0, ok |-> TRUE]
  /\ ProcIdle
  /\ UNCHANGED <<nextId, adds, flightVars, histVars, cacheVars, temp>>

(***************************************************************************)
(* Queue.add calls started without awaiting one another (Promise.all over  *)
(* add).  A call runs up to its first await, the read of queue.json in     *)
(* loadQueue; it goes on when the read has come back, and up to its second *)
(* await, the write in saveQueue.                                          *)
(***************************************************************************)
\* Queue.add lines 284-295: id and item are built, the read is issued.  The
\* caller starts the next call right away, before any read has come back.
AddStart(pkg, priority, now) ==
  /\ pc \in Quiescent
  /\ nextId <= MaxAdds
  /\ \A c \in adds : c.at = "load" /\ c.item.queuedAt <= now
  /\ \A i \in 1..Len(loadQueue(queueFile)) : loadQueue(queueFile)[i].queuedAt <= now
  /\ adds' = adds \cup
       { [item |-> [id |-> nextId, packageName |-> pkg.name,
                    version |-> pkg.version, manager |-> pkg.manager,
                    priority |-> priority, queuedAt |-> now,
                    status |-> "pending", error |-> ""],
          at |-> "load", queue |-> <<>>] }
  /\ nextId' = nextId + 1
  /\ UNCHANGED <<queueFile, flightVars, lastCall, procVars, histVars, cacheVars, temp>>

\* Queue.add line 295: the read of one call comes back with the file as it is
AddLoad(id) ==
  \E c \in adds :
  /\ c.item.id = id
  /\ c.at = "load"
  /\ adds' = (adds \ {c}) \cup { [c EXCEPT !.at = "save", !.queue = loadQueue(queueFile)] }
  /\ UNCHANGED <<queueFile, nextId, flightVars, lastCall, procVars, histVars, cacheVars, temp>>

\* Queue.add lines 297-309 on the array the call has loaded
AddSave(id) ==
  \E c \in adds :
  /\ c.item.id = id
  /\ c.at = "save"
  /\ IF existing(c.queue, PkgOf(c.item)) # 0
     THEN /\ adds' = (adds \ {c}) \cup { [c EXCEPT !.at = "rejected", !.queue = <<>>] }
          /\ lastCall' = [op |-> "add", pkg |-> PkgOf(c.item), id |-> 0, ok |-> FALSE]
          /\ UNCHANGED queueFile
     ELSE /\ queueFile' = saveQueue(Append(c.queue, c.item))
          /\ adds' = (adds \ {c}) \cup { [c EXCEPT !.at = "returned", !.queue = <<>>] }
          /\ lastCall' = [op |-> "add", pkg |-> PkgOf(c.item), id |-> c.item.id, ok |-> TRUE]
  /\ UNCHANGED <<nextId, flightVars, procVars, histVars, cacheVars, temp>>

NextConcurrent ==
  \/ \E pkg \in Packages, priority \in Priorities, now \in Times : AddStart(pkg, priority, now)
  \/ \E id \in QueueIds : AddLoad(id)
  \/ \E id \in QueueIds : AddSave(id)

\* one batch of add calls on a fresh queue
SpecConcurrent == Init /\ [][NextConcurrent]_vars

(***************************************************************************)
(* Cache (src/src/cli.ts) over Database (src/src/core/database.ts).        *)
(***************************************************************************)
\* the (name, version, manager) of a cache record
Triple(r) == [name |-> r.name, version |-> r.version, manager |-> r.manager]

\* generateId, had only the version gone into the digest
generateIdOfVersion(name, version) == <<"@">> \o version

\* Cache.generateId: md5 of `${name}@${version}`; the digest is modelled by
\* the string it is computed from, the concatenation of name, "@" and
\* version (the manager is not part of it).
generateId(name, version) == name \o <<"@">> \o version

\* Cache.calculateHash / Cache.getFileSize of a file holding bytes
calculateHash(bytes) == bytes
getFileSize(bytes) == Len(bytes)

NoPath == <<>>

\* Database.savePackage: INSERT OR REPLACE into a table with
\* id TEXT PRIMARY KEY and UNIQUE(name, version): every row that conflicts
\* with the new one on either constraint is deleted, then the row is inserted.
savePackage(table, row) ==
  { r \in table : ~(r.id = row.id \/ (r.name = row.name /\ r.version = row.version)) }
    \cup {row}

\* Database.getPackage: the rows with that name and version (at most one)
getPackage(table, name, version) ==
  { r \in table : r.name = name /\ r.version = version }

\* removePackage, had the DELETE matched no row
removePackageNone(table, name, version) == table

\* Database.removePackage
removePackage(table, name, version) ==
  { r \in table : ~(r.name = name /\ r.version = version) }

\* copyArtifact, had the copy left the packages directory as it was
copyArtifactSkipped(files, id, bytes) == files

\* fs.copy(src, <cacheDir>/packages/<id>.tar.gz): overwrites
copyArtifact(files, id, bytes) ==
  { f \in files : f.id # id } \cup { [id |-> id, bytes |-> bytes] }

\* cachedPackage, had the id been taken from the content of the artifact
cachedPackageIdOfContent(info, bytes, hasDocs, hasExamples) ==
  LET id == <<info.name, info.version, calculateHash(bytes)>>
  IN [id |-> id, name |-> info.name, version |-> info.version,
      manager |-> info.manager,
      size |-> getFileSize(bytes), checksum |-> calculateHash(bytes),
      localPath |-> <<"packages", id>>,
      documentationPath |-> IF hasDocs THEN <<"docs", id>> ELSE NoPath,
      examplesPath |-> IF hasExamples THEN <<"examples", id>> ELSE NoPath]

\* Cache.add: the row it builds
\* (cachedAt and the descriptive fields copied from packageInfo are left out:
\* nothing below reads them)
cachedPackage(info, bytes, hasDocs, hasExamples) ==
  LET id == generateId(info.name, info.version)
  IN [id |-> id, name |-> info.name, version |-> info.version,
      manager |-> info.manager,
      size |-> getFileSize(bytes), checksum |-> calculateHash(bytes),
      localPath |-> <<"packages", id>>,
      documentationPath |-> IF hasDocs THEN <<"docs", id>> ELSE NoPath,
      examplesPath |-> IF hasExamples THEN <<"examples", id>> ELSE NoPath]

\* CacheAddEffect, had Cache.add committed only packages that come with
\* documentation and examples
CacheAddEffectNeedsDocs(info, bytes, hasDocs, hasExamples) ==
  LET id == generateId(info.name, info.version)
  IN IF hasDocs /\ hasExamples
     THEN /\ pkgFiles' = copyArtifact(pkgFiles, id, bytes)
          /\ docsDirs' = docsDirs \cup {id}
          /\ exDirs' = exDirs \cup {id}
          /\ db' = savePackage(db, cachedPackage(info, bytes, hasDocs, hasExamples))
     ELSE UNCHANGED cacheVars

\* Cache.add(packageInfo, packagePath, docsPath?, examplesPath?) as one step;
\* hasDocs / hasExamples: the optional source path was given and exists.
CacheAddEffect(info, bytes, hasDocs, hasExamples) ==
  LET id == generateId(info.name, info.version)
  IN /\ pkgFiles' = copyArtifact(pkgFiles, id, bytes)
     /\ docsDirs' = IF hasDocs THEN docsDirs \cup {id} ELSE docsDirs
     /\ exDirs' = IF hasExamples THEN exDirs \cup {id} ELSE exDirs
     /\ db' = savePackage(db, cachedPackage(info, bytes, hasDocs, hasExamples))

\* Cache.list as a set (ordering is not modelled here)
list == db

\* the reduce of Cache.getSize: total + pkg.size over the packages, from 0
RECURSIVE reduceSize(_)
reduceSize(packages) ==
  IF packages = {} THEN 0
  ELSE LET pkg == CHOOSE r \in packages : TRUE
       IN pkg.size + reduceSize(packages \ {pkg})

\* getSize, had it also counted one unit per documentation directory
getSizeWithDocs == reduceSize(list) + Cardinality(docsDirs)

\* Cache.getSize()
getSize == reduceSize(list)

\* SQL MAX(size) in place of SUM(size)
RECURSIVE sqlMaxSize(_)
sqlMaxSize(table) ==
  IF table = {} THEN [isNull |-> TRUE, value |-> 0]
  ELSE LET row == CHOOSE r \in table : TRUE
           rest == sqlMaxSize(table \ {row})
       IN [isNull |-> FALSE,
           value |-> IF rest.value > row.size THEN rest.value ELSE row.size]

\* SQL SUM(size) FROM packages: NULL over no rows
RECURSIVE sqlSumSize(_)
sqlSumSize(table) ==
  IF table = {} THEN [isNull |-> TRUE, value |-> 0]
  ELSE LET row == CHOOSE r \in table : TRUE
       IN [isNull |-> FALSE, value |-> row.size + sqlSumSize(table \ {row}).value]

\* SQL COUNT(*) FROM packages
sqlCount(table) == [isNull |-> FALSE, value |-> Cardinality(table)]

\* column || 0
orZero(column) == IF column.isNull \/ column.value = 0 THEN 0 ELSE column.value

\* Database.getStats, which Zembil.getStats returns (the two dates are not
\* kept)
getStats ==
  [totalPackages |-> orZero(sqlCount(db)), totalSize |-> orZero(sqlSumSize(db))]

\* exists, had it asked the table only
existsRecordOnly(name, version) == getPackage(db, name, version) # {}

\* Cache.exists: a record of (name, version) is in the table and the file at
\* its localPath is there
exists(name, version) ==
  \E cached \in getPackage(db, name, version) :
    \E f \in pkgFiles : <<"packages", f.id>> = cached.localPath

\* a client calls Cache.add directly
CacheAdd(info, bytes, hasDocs, hasExamples) ==
  /\ pc \in Quiescent
  /\ CacheAddEffect(info, bytes, hasDocs, hasExamples)
  /\ lastCall' = [op |-> "cache.add", pkg |-> info, id |-> 0, ok |-> TRUE]
  /\ ids' = IF \E e \in ids : e.pkg = info
             THEN ids
             ELSE ids \cup { [pkg |-> info,
                              id |-> cachedPackage(info, bytes, hasDocs, hasExamples).id,
                              bytes |-> bytes, removed |-> FALSE] }
  /\ UNCHANGED <<queueVars, procVars, fetched, warnings, requests, temp>>

\* Cache.remove(name, version)
CacheRemove(name, version) ==
  /\ pc \in Quiescent
  /\ LET cached == getPackage(db, name, version)
     IN IF cached = {}
        THEN /\ lastCall' = [op |-> "cache.remove",
                             pkg |-> [name |-> name, version |-> version, manager |-> ""],
                             id |-> 0, ok |-> FALSE]
             /\ UNCHANGED <<cacheVars, ids>>
        ELSE LET c == CHOOSE r \in cached : TRUE
             IN /\ pkgFiles' = { f \in pkgFiles : <<"packages", f.id>> # c.localPath }
                /\ docsDirs' = { d \in docsDirs : <<"docs", d>> # c.documentationPath }
                /\ exDirs' = { d \in exDirs : <<"examples", d>> # c.examplesPath }
                /\ db' = removePackage(db, name, version)
                /\ ids' = { IF e.pkg = Triple(c) THEN [e EXCEPT !.removed = TRUE] ELSE e :
                            e \in ids }
                /\ lastCall' = [op |-> "cache.remove",
                                pkg |-> [name |-> name, version |-> version, manager |-> ""],
                                id |-> 0, ok |-> TRUE]
  /\ UNCHANGED <<queueVars, procVars, fetched, warnings, requests, temp>>

NextCache ==
  \/ \E info \in CachePackages, bytes \in Contents, hasDocs \in BOOLEAN, hasExamples \in BOOLEAN :
       CacheAdd(info, bytes, hasDocs, hasExamples)
  \/ \E name \in Names, version \in Versions : CacheRemove(name, version)

\* the cache used on its own, without the queue
SpecCache == Init /\ [][NextCache]_vars

(***************************************************************************)
(* The cache on a filesystem whose deletes may fail (file busy, permission *)
(* lost).                                                                  *)
(***************************************************************************)
\* Cache.remove lines 443-449 throw: the fs.remove of the artifact, of the
\* documentation or of the examples fails; what was deleted before stays
\* deleted, line 451 (db.removePackage) is not reached, the call rejects
CacheRemoveDeleteFails(name, version, stage) ==
  /\ pc \in Quiescent
  /\ getPackage(db, name, version) # {}
  /\ LET c == CHOOSE r \in getPackage(db, name, version) : TRUE
     IN /\ stage = "docs" => c.documentationPath # NoPath
        /\ stage = "examples" => c.examplesPath # NoPath
        /\ pkgFiles' = IF stage = "artifact" THEN pkgFiles
                       ELSE { f \in pkgFiles : <<"packages", f.id>> # c.localPath }
        /\ docsDirs' = IF stage = "examples"
                       THEN { d \in docsDirs : <<"docs", d>> # c.documentationPath }
                       ELSE docsDirs
        /\ UNCHANGED <<exDirs, db>>
  /\ lastCall' = [op |-> "cache.remove",
                  pkg |-> [name |-> name, version |-> version, manager |-> ""],
                  id |-> 0, ok |-> FALSE]
  /\ UNCHANGED <<queueVars, procVars, histVars, temp>>

NextCacheFaults ==
  \/ \E info \in CachePackages, hasDocs \in BOOLEAN, hasExamples \in BOOLEAN :
       CacheAdd(info, <<1>>, hasDocs, hasExamples)
  \/ \E name \in Names, version \in Versions : CacheRemove(name, version)
  \/ \E name \in Names, version \in Versions, stage \in {"artifact", "docs", "examples"} :
       CacheRemoveDeleteFails(name, version, stage)

\* the cache used on its own, on a filesystem whose deletes may fail
SpecCacheFaults == Init /\ [][NextCacheFaults]_vars

(***************************************************************************)
(* The cache with its read operations, cleanup, and files that are created *)
(* or deleted in the cache directory from outside.                         *)
(***************************************************************************)
\* what a caller of Cache.add passes as docsPath or examplesPath: nothing,
\* a path where nothing is, or a path of an existing directory
SourcePaths == {"none", "missing", "present"}

\* fs.pathExists of a source path
pathExists(path) == path = "present"

\* sourceUsable, had add not asked whether the path exists
sourceUsableIfGiven(path) == path # "none"

\* the test of Cache.add before it copies: docsPath && await fs.pathExists(docsPath)
sourceUsable(path) == path # "none" /\ pathExists(path)

\* a client calls Cache.add with the optional source paths spelled out
CacheAddFrom(info, bytes, docsPath, examplesPath) ==
  /\ pc \in Quiescent
  /\ CacheAddEffect(info, bytes, sourceUsable(docsPath), sourceUsable(examplesPath))
  /\ lastCall' = [op |-> "cache.add", pkg |-> info, id |-> 0, ok |-> TRUE,
                  docsPath |-> docsPath, examplesPath |-> examplesPath]
  /\ ids' = IF \E e \in ids : e.pkg = info
             THEN ids
             ELSE ids \cup { [pkg |-> info, id |-> generateId(info.name, info.version),
                              bytes |-> bytes, removed |-> FALSE] }
  /\ UNCHANGED <<queueVars, procVars, fetched, warnings, requests, temp>>

\* Cache.exists(name, version) as a call: its result is held in lastCall.ok
CacheExists(name, version) ==
  /\ pc \in Quiescent
  /\ lastCall' = [op |-> "cache.exists",
                  pkg |-> [name |-> name, version |-> version, manager |-> ""],
                  id |-> 0, ok |-> exists(name, version)]
  /\ UNCHANGED <<queueVars, procVars, histVars, cacheVars, temp>>

\* the artifact file of (name, version) is deleted by hand
\* (fs.remove(cached.localPath) outside the cache)
ExternalDelete(name, version) ==
  /\ pc \in Quiescent
  /\ \E f \in pkgFiles : f.id = generateId(name, version)
  /\ pkgFiles' = { f \in pkgFiles : f.id # generateId(name, version) }
  /\ lastCall' = [op |-> "fs.remove",
                  pkg |-> [name |-> name, version |-> version, manager |-> ""],
                  id |-> 0, ok |-> TRUE]
  /\ UNCHANGED <<queueVars, procVars, histVars, db, docsDirs, exDirs, temp>>

\* name of a file or directory no record has as id
OrphanId == <<"orphaned">>

\* a file packages/orphaned.tar.gz, a directory docs/orphaned or
\* examples/orphaned is created by hand
ExternalCreate(kind) ==
  /\ pc \in Quiescent
  /\ pkgFiles' = IF kind = "packages" THEN copyArtifact(pkgFiles, OrphanId, <<1>>) ELSE pkgFiles
  /\ docsDirs' = IF kind = "docs" THEN docsDirs \cup {OrphanId} ELSE docsDirs
  /\ exDirs' = IF kind = "examples" THEN exDirs \cup {OrphanId} ELSE exDirs
  /\ lastCall' = [op |-> "fs.write", pkg |-> NoPkg, id |-> 0, ok |-> TRUE]
  /\ UNCHANGED <<queueVars, procVars, histVars, db, temp>>

\* cleanupDirectory, had it removed nothing
cleanupDirectoryKeepAll(dirs, packages) == dirs

\* Cache.cleanupDirectory, and the loop of Cache.cleanup over packages/: the
\* entries whose name is the id of one of the packages stay
cleanupDirectory(dirs, packages) ==
  { dir \in dirs : \E pkg \in packages : pkg.id = dir }

\* Cleanup, had it also dropped the records whose artifact is missing
CleanupPruningRecords ==
  /\ pc \in Quiescent
  /\ pkgFiles' = { f \in pkgFiles : f.id \in cleanupDirectory({ g.id : g \in pkgFiles }, list) }
  /\ docsDirs' = cleanupDirectory(docsDirs, list)
  /\ exDirs' = cleanupDirectory(exDirs, list)
  /\ db' = { r \in db : \E f \in pkgFiles : <<"packages", f.id>> = r.localPath }
  /\ lastCall' = [op |-> "cache.cleanup", pkg |-> NoPkg, id |-> 0, ok |-> TRUE]
  /\ UNCHANGED <<queueVars, procVars, histVars, temp>>

\* Cache.cleanup()
Cleanup ==
  /\ pc \in Quiescent
  /\ pkgFiles' = { f \in pkgFiles : f.id \in cleanupDirectory({ g.id : g \in pkgFiles }, list) }
  /\ docsDirs' = cleanupDirectory(docsDirs, list)
  /\ exDirs' = cleanupDirectory(exDirs, list)
  /\ lastCall' = [op |-> "cache.cleanup", pkg |-> NoPkg, id |-> 0, ok |-> TRUE]
  /\ UNCHANGED <<queueVars, procVars, histVars, db, temp>>

\* the packages the store is exercised with: one per name
StorePackages == { info \in CachePackages : info.manager = "npm" }

NextStore ==
  \/ \E info \in StorePackages, docsPath \in SourcePaths, examplesPath \in SourcePaths :
       CacheAddFrom(info, <<1>>, docsPath, examplesPath)
  \/ \E name \in Names, version \in Versions : CacheRemove(name, version)
  \/ \E name \in Names, version \in Versions : CacheExists(name, version)
  \/ \E name \in Names, version \in Versions : ExternalDelete(name, version)
  \/ \E kind \in {"packages", "docs", "examples"} : ExternalCreate(kind)
  \/ Cleanup

\* the cache used on its own, in a directory that is also changed by hand
SpecStore == Init /\ [][NextStore]_vars

(***************************************************************************)
(* Cache.add await by await: the source is read for the hash, read again   *)
(* for the size, copied, documentation and examples are copied, and the    *)
(* record is saved.  Between two awaits the source file may be rewritten   *)
(* and another call on the cache (remove, cleanup) may run.                *)
(***************************************************************************)
\* Cache.add is called: line 381
CacheAddBegin(info, bytes, hasDocs, hasExamples) ==
  /\ pc \in Quiescent
  /\ adding = NoAdding
  /\ adding' = [stage |-> "hash", info |-> info, source |-> bytes,
                hasDocs |-> hasDocs, hasExamples |-> hasExamples,
                checksum |-> <<>>, size |-> 0]
  /\ UNCHANGED <<queueFile, nextId, adds, other, lastCall, procVars, histVars, cacheVars, temp>>

\* the file at packagePath is rewritten while the call is running
SourceChanges(bytes) ==
  /\ adding.stage \in {"hash", "stat", "copy"}
  /\ bytes # adding.source
  /\ adding' = [adding EXCEPT !.source = bytes]
  /\ UNCHANGED <<queueFile, nextId, adds, other, lastCall, procVars, histVars, cacheVars, temp>>

\* line 382: calculateHash(packagePath)
CacheAddHash ==
  /\ adding.stage = "hash"
  /\ adding' = [adding EXCEPT !.checksum = calculateHash(adding.source), !.stage = "stat"]
  /\ UNCHANGED <<queueFile, nextId, adds, other, lastCall, procVars, histVars, cacheVars, temp>>

\* line 383: getFileSize(packagePath)
CacheAddStat ==
  /\ adding.stage = "stat"
  /\ adding' = [adding EXCEPT !.size = getFileSize(adding.source), !.stage = "copy"]
  /\ UNCHANGED <<queueFile, nextId, adds, other, lastCall, procVars, histVars, cacheVars, temp>>

\* lines 385-386: fs.copy(packagePath, cachedPackagePath)
CacheAddCopy ==
  /\ adding.stage = "copy"
  /\ pkgFiles' = copyArtifact(pkgFiles, generateId(adding.info.name, adding.info.version),
                              adding.source)
  /\ adding' = [adding EXCEPT !.stage = "extras"]
  /\ UNCHANGED <<queueFile, nextId, adds, other, lastCall, procVars, histVars,
                 db, docsDirs, exDirs, temp>>

\* lines 388-398: documentation and examples are copied
CacheAddExtras ==
  /\ adding.stage = "extras"
  /\ LET id == generateId(adding.info.name, adding.info.version)
     IN /\ docsDirs' = IF adding.hasDocs THEN docsDirs \cup {id} ELSE docsDirs
        /\ exDirs' = IF adding.hasExamples THEN exDirs \cup {id} ELSE exDirs
  /\ adding' = [adding EXCEPT !.stage = "save"]
  /\ UNCHANGED <<queueFile, nextId, adds, other, lastCall, procVars, histVars,
                 db, pkgFiles, temp>>

\* the record of lines 400-409, with the hash and the size the call holds
addingRecord ==
  [cachedPackage(adding.info, adding.source, adding.hasDocs, adding.hasExamples)
     EXCEPT !.checksum = adding.checksum, !.size = adding.size]

\* lines 400-412: the record is saved, the id returned
CacheAddSave ==
  /\ adding.stage = "save"
  /\ db' = savePackage(db, addingRecord)
  /\ adding' = NoAdding
  /\ lastCall' = [op |-> "cache.add", pkg |-> adding.info, id |-> 0, ok |-> TRUE]
  /\ ids' = IF \E e \in ids : e.pkg = adding.info
             THEN ids
             ELSE ids \cup { [pkg |-> adding.info, id |-> addingRecord.id,
                              bytes |-> adding.source, removed |-> FALSE] }
  /\ UNCHANGED <<queueFile, nextId, adds, other, procVars, fetched, warnings, requests,
                 pkgFiles, docsDirs, exDirs, temp>>

\* the package the stepwise add is exercised with
StepPackages == { info \in StorePackages : info.name = NameA }

NextAddSteps ==
  \/ \E info \in StepPackages, bytes \in Contents, hasDocs \in BOOLEAN :
       CacheAddBegin(info, bytes, hasDocs, hasDocs)
  \/ \E bytes \in Contents : SourceChanges(bytes)
  \/ CacheAddHash
  \/ CacheAddStat
  \/ CacheAddCopy
  \/ CacheAddExtras
  \/ CacheAddSave
  \/ \E version \in Versions : CacheRemove(NameA, version)
  \/ Cleanup

\* one Cache.add call at a time, with other calls and writers in between
SpecAddSteps == Init /\ [][NextAddSteps]_vars

(***************************************************************************)
(* Zembil.install (src/src/zembil.ts) over the cache and the package        *)
(* managers.  Version strings are held as their sequence of characters.    *)
(***************************************************************************)
V9_0_0 == <<"9", ".", "0", ".", "0">>
V9_1_0 == <<"9", ".", "1", ".", "0">>
V10_0_0 == <<"1", "0", ".", "0", ".", "0">>
InstallVersions == {V9_0_0, V9_1_0, V10_0_0}

InstallPackages ==
  { [name |-> NameA, version |-> V9_0_0, manager |-> "npm"],
    [name |-> NameA, version |-> V9_1_0, manager |-> "pip"],
    [name |-> NameA, version |-> V10_0_0, manager |-> "npm"],
    [name |-> NameA, version |-> V10_0_0, manager |-> "pip"] }

\* place of a character in the collation order of String.prototype.localeCompare:
\* the full stop sorts before the digits, the digits in their order
Rank(c) ==
  CASE c = "." -> 0 [] c = "0" -> 1 [] c = "1" -> 2 [] c = "2" -> 3 [] c = "3" -> 4
    [] c = "4" -> 5 [] c = "5" -> 6 [] c = "6" -> 7 [] c = "7" -> 8 [] c = "8" -> 9
    [] c = "9" -> 10

\* a.localeCompare(b) without options: character by character, a proper
\* prefix sorts first
localeCompare(a, b) ==
  LET n == IF Len(a) < Len(b) THEN Len(a) ELSE Len(b)
      i == FirstIndex({ k \in 1..n : a[k] # b[k] })
  IN IF i = 0
     THEN (IF Len(a) < Len(b) THEN -1 ELSE IF Len(a) > Len(b) THEN 1 ELSE 0)
     ELSE (IF Rank(a[i]) < Rank(b[i]) THEN -1 ELSE 1)

\* Zembil.findCachedPackage(packageName) with no version: the records of that
\* name, sorted with (a, b) => b.version.localeCompare(a.version), the first
\* of them; as a set (empty for null)
findCachedPackage(table, packageName) ==
  LET matching == { r \in table : r.name = packageName }
  IN { m \in matching : \A r \in matching : localeCompare(r.version, m.version) <= 0 }

\* Zembil.install(packageName, targetDir).  The install of every manager
\* (NpmManager, PipManager, MavenManager) starts with getPackageInfo, a fetch
\* from its registry, and downloads the artifact from there; reachable tells
\* whether the registry answers.
Install(packageName, reachable) ==
  /\ pc \in Quiescent
  /\ LET found == findCachedPackage(db, packageName)
     IN IF found = {}
        THEN /\ lastCall' = [op |-> "install",
                             pkg |-> [name |-> packageName, version |-> <<>>, manager |-> ""],
                             id |-> 0, ok |-> FALSE]
             /\ UNCHANGED requests
        ELSE LET cached == CHOOSE r \in found : TRUE
             IN /\ requests' = requests \cup {Triple(cached)}
                /\ lastCall' = [op |-> "install", pkg |-> Triple(cached),
                                id |-> 0, ok |-> reachable]
  /\ UNCHANGED <<queueVars, procVars, fetched, warnings, ids, cacheVars, temp>>

NextInstall ==
  \/ \E info \in InstallPackages : CacheAdd(info, <<1>>, FALSE, FALSE)
  \/ \E version \in InstallVersions : CacheRemove(NameA, version)
  \/ \E packageName \in Names, reachable \in BOOLEAN : Install(packageName, reachable)

\* packages put into the cache and installed from it
SpecInstall == Init /\ [][NextInstall]_vars

(***************************************************************************)
(* Queue.process and Queue.processItem.  One action per write to           *)
(* queue.json, so that the process can stop between any two writes.        *)
(***************************************************************************)
\* pendingFilter, had it taken every entry of the array
pendingFilterAll(q) == [i \in 1..Len(q) |-> i]

\* pendingFilter, had it also picked the failed items up again
pendingFilterRetry(q) ==
  LET F[i \in 0..Len(q)] ==
        IF i = 0 THEN <<>>
        ELSE IF q[i].status \in {"pending", "failed"} THEN Append(F[i - 1], i) ELSE F[i - 1]
  IN F[Len(q)]

\* Queue.process line 346: indices of the items with status pending, in the
\* order of the loaded array
pendingFilter(q) ==
  LET F[i \in 0..Len(q)] ==
        IF i = 0 THEN <<>>
        ELSE IF q[i].status = "pending" THEN Append(F[i - 1], i) ELSE F[i - 1]
  IN F[Len(q)]

\* Queue.updateItem: reload the file, replace the entry with the item's id
updateItem(file, item) ==
  LET q == loadQueue(file)
      index == FirstIndex({ i \in 1..Len(q) : q[i].id = item.id })
  IN IF index # 0 THEN saveQueue([q EXCEPT ![index] = item]) ELSE file

\* the item the loop is at
ItemIndex == pendingItems[cur]
Item == queue[ItemIndex]

\* the `${item.packageName}@${item.version}: ${item.error}` line of errors[]
errorLine(item, message) == <<item.packageName, item.version, message>>

\* Advance, had the loop been left at the first failed item
AdvanceStopOnFailure(res) ==
  /\ cur' = cur + 1
  /\ IF cur < Len(pendingItems) /\ res.failed = 0
     THEN /\ pc' = "mark"
          /\ result' = res
     ELSE /\ pc' = "done"
          /\ result' = [res EXCEPT !.success = (res.failed = 0)]

\* the loop of process(): after an item, on to the next one or return
\* (line 374 sets success when the loop is over)
Advance(res) ==
  /\ cur' = cur + 1
  /\ IF cur < Len(pendingItems)
     THEN /\ pc' = "mark"
          /\ result' = res
     ELSE /\ pc' = "done"
          /\ result' = [res EXCEPT !.success = (res.failed = 0)]

\* process() lines 345-354
ProcessStart ==
  /\ pc \in Quiescent
  /\ queue' = loadQueue(queueFile)
  /\ pendingItems' = pendingFilter(queue')
  /\ thrown' = ""
  /\ outcome' = NoOutcome
  /\ IF pendingItems' = <<>>
     THEN /\ pc' = "done"
          /\ cur' = 0
          /\ result' = ZeroResult
     ELSE /\ pc' = "mark"
          /\ cur' = 1
          /\ result' = ZeroResult
  /\ lastCall' = [op |-> "process", pkg |-> NoPkg, id |-> 0, ok |-> TRUE]
  /\ UNCHANGED <<queueVars, histVars, cacheVars, temp>>

\* processItem lines 404-405
MarkDownloading ==
  /\ pc = "mark"
  /\ queue' = [queue EXCEPT ![ItemIndex].status = "downloading"]
  /\ queueFile' = updateItem(queueFile, queue'[ItemIndex])
  /\ pc' = "fetch"
  /\ UNCHANGED <<nextId, adds, flightVars, lastCall, pendingItems, cur, result, thrown, outcome,
                 histVars, cacheVars, temp>>

\* processItem lines 408-411 throw: getPackageInfo or downloadPackage failed;
\* lines 446-447
ItemFetchFails(message) ==
  /\ pc = "fetch"
  /\ fetched' = [fetched EXCEPT ![Item.id] = @ + 1]
  /\ UNCHANGED <<requests, ids>>
  /\ outcome' = [outcome EXCEPT ![Item.id] = message]
  /\ queue' = [queue EXCEPT ![ItemIndex].status = "failed",
                            ![ItemIndex].error = message]
  /\ thrown' = message
  /\ pc' = "failUpdate"
  /\ UNCHANGED <<queueVars, lastCall, pendingItems, cur, result, warnings, cacheVars, temp>>

\* the bytes the registry of pkg.manager serves for pkg: a registry serves
\* the same artifact each time it is asked for the same package
Artifact(pkg) == IF pkg.manager = "npm" THEN <<1>> ELSE <<2, 2>>

\* processItem lines 421-423 and 437-439: a failed getDocumentation or
\* getExamples is caught and reported with console.warn
Warned(docs, examples) ==
  (IF docs = "fail" THEN {"docs"} ELSE {}) \cup
  (IF examples = "fail" THEN {"examples"} ELSE {})

\* processItem lines 408-443 run through: info and artifact fetched, docs and
\* examples fetched ("ok"), not available ("empty") or failed ("fail"),
\* Cache.add, temporary copies removed
ItemSucceeds(docs, examples) ==
  /\ pc = "fetch"
  /\ fetched' = [fetched EXCEPT ![Item.id] = @ + 1]
  /\ UNCHANGED <<requests, ids>>
  /\ CacheAddEffect(PkgOf(Item), Artifact(PkgOf(Item)), docs = "ok", examples = "ok")
  /\ temp' = temp \ { <<"pkg", PkgOf(Item)>>, <<"docs", Item.id>>, <<"examples", Item.id>> }
  /\ warnings' = Warned(docs, examples)
  /\ outcome' = [outcome EXCEPT ![Item.id] = "ok"]
  /\ pc' = "complete"
  /\ UNCHANGED <<queueVars, lastCall, queue, pendingItems, cur, result, thrown>>

\* processItem line 448 and 449: the failed item is written, the error rethrown
FailUpdate ==
  /\ pc = "failUpdate"
  /\ queueFile' = updateItem(queueFile, Item)
  /\ pc' = "catch"
  /\ UNCHANGED <<nextId, adds, flightVars, lastCall, queue, pendingItems, cur, result, thrown, outcome,
                 histVars, cacheVars, temp>>

\* process() lines 359-362
Complete ==
  /\ pc = "complete"
  /\ queue' = [queue EXCEPT ![ItemIndex].status = "completed"]
  /\ queueFile' = saveQueue(queue')
  /\ Advance([result EXCEPT !.downloaded = @ + 1])
  /\ warnings' = {}
  /\ UNCHANGED <<nextId, adds, flightVars, lastCall, pendingItems, thrown, outcome, fetched, requests, ids, cacheVars, temp>>

\* process() lines 364-371
Catch ==
  /\ pc = "catch"
  /\ queue' = [queue EXCEPT ![ItemIndex].status = "failed",
                            ![ItemIndex].error = thrown]
  /\ queueFile' = saveQueue(queue')
  /\ Advance([result EXCEPT !.failed = @ + 1,
                            !.errors = Append(@, errorLine(Item, thrown))])
  /\ warnings' = {}
  /\ UNCHANGED <<nextId, adds, flightVars, lastCall, pendingItems, thrown, outcome, fetched, requests, ids, cacheVars, temp>>

\* the process dies (power loss) while process() is in flight and is
\* started again: the files stay, the locals are gone
Crash ==
  /\ pc \notin Quiescent
  /\ ProcIdle
  /\ lastCall' = [op |-> "restart", pkg |-> NoPkg, id |-> 0, ok |-> TRUE]
  /\ warnings' = {}
  /\ UNCHANGED <<queueVars, fetched, requests, ids, cacheVars, temp>>

(***************************************************************************)
(* The same steps when a write fails (disk full, permission lost).  A      *)
(* failed fs.writeFile leaves queue.json as it was.                        *)
(***************************************************************************)
\* the temporary copies processItem has made when it reaches Cache.add
TempCopies(item, docs, examples) ==
  { <<"pkg", PkgOf(item)>> }
    \cup (IF docs = "ok" THEN { <<"docs", item.id>> } ELSE {})
    \cup (IF examples = "ok" THEN { <<"examples", item.id>> } ELSE {})

\* processItem line 405 throws: updateItem's write failed; the call is outside
\* processItem's try, so the error reaches the catch of process()
MarkWriteFails(message) ==
  /\ pc = "mark"
  /\ queue' = [queue EXCEPT ![ItemIndex].status = "downloading"]
  /\ thrown' = message
  /\ pc' = "catch"
  /\ UNCHANGED <<queueVars, lastCall, pendingItems, cur, result, outcome,
                 histVars, cacheVars, temp>>

\* processItem line 439 throws: Cache.add failed, either before anything was
\* copied (stage "copy") or at Database.savePackage, after the copies (stage
\* "save"); lines 441-443 are skipped, 446-447 run
ItemCacheAddFails(docs, examples, stage, message) ==
  /\ pc = "fetch"
  /\ fetched' = [fetched EXCEPT ![Item.id] = @ + 1]
  /\ UNCHANGED <<requests, ids>>
  /\ LET id == generateId(Item.packageName, Item.version)
     IN IF stage = "save"
        THEN /\ pkgFiles' = copyArtifact(pkgFiles, id, Artifact(PkgOf(Item)))
             /\ docsDirs' = IF docs = "ok" THEN docsDirs \cup {id} ELSE docsDirs
             /\ exDirs' = IF examples = "ok" THEN exDirs \cup {id} ELSE exDirs
             /\ UNCHANGED db
        ELSE UNCHANGED cacheVars
  /\ temp' = temp \cup TempCopies(Item, docs, examples)
  /\ warnings' = Warned(docs, examples)
  /\ queue' = [queue EXCEPT ![ItemIndex].status = "failed",
                            ![ItemIndex].error = message]
  /\ outcome' = [outcome EXCEPT ![Item.id] = message]
  /\ thrown' = message
  /\ pc' = "failUpdate"
  /\ UNCHANGED <<queueVars, lastCall, pendingItems, cur, result>>

\* processItem line 441 throws: Cache.add succeeded, removing the temporary
\* artifact failed; lines 446-447 run
ItemTempRemoveFails(docs, examples, message) ==
  /\ pc = "fetch"
  /\ fetched' = [fetched EXCEPT ![Item.id] = @ + 1]
  /\ UNCHANGED <<requests, ids>>
  /\ CacheAddEffect(PkgOf(Item), Artifact(PkgOf(Item)), docs = "ok", examples = "ok")
  /\ temp' = temp \cup TempCopies(Item, docs, examples)
  /\ warnings' = Warned(docs, examples)
  /\ queue' = [queue EXCEPT ![ItemIndex].status = "failed",
                            ![ItemIndex].error = message]
  /\ outcome' = [outcome EXCEPT ![Item.id] = message]
  /\ thrown' = message
  /\ pc' = "failUpdate"
  /\ UNCHANGED <<queueVars, lastCall, pendingItems, cur, result>>

\* processItem line 448 throws: the new error replaces the one being handled
FailUpdateWriteFails(message) ==
  /\ pc = "failUpdate"
  /\ thrown' = message
  /\ pc' = "catch"
  /\ UNCHANGED <<queueVars, lastCall, queue, pendingItems, cur, result, outcome,
                 histVars, cacheVars, temp>>

\* process() line 362 throws, after lines 359 and 361
CompleteWriteFails(message) ==
  /\ pc = "complete"
  /\ queue' = [queue EXCEPT ![ItemIndex].status = "completed"]
  /\ result' = [result EXCEPT !.downloaded = @ + 1]
  /\ thrown' = message
  /\ pc' = "catch"
  /\ UNCHANGED <<queueVars, lastCall, pendingItems, cur, outcome, histVars, cacheVars, temp>>

\* process() line 370 throws, after lines 366-369: nothing catches it, the
\* promise process() returned is rejected and the loop is over
CatchWriteFails(message) ==
  /\ pc = "catch"
  /\ queue' = [queue EXCEPT ![ItemIndex].status = "failed",
                            ![ItemIndex].error = thrown]
  /\ result' = [result EXCEPT !.failed = @ + 1,
                              !.errors = Append(@, errorLine(Item, thrown))]
  /\ thrown' = message
  /\ pc' = "aborted"
  /\ warnings' = {}
  /\ UNCHANGED <<queueVars, lastCall, pendingItems, cur, outcome, fetched, requests, ids, cacheVars, temp>>

Outcomes == {"ok", "empty", "fail"}

Next ==
  \/ \E pkg \in Packages, priority \in Priorities, now \in Times : Add(pkg, priority, now)
  \/ \E id \in QueueIds : Remove(id)
  \/ Clear
  \/ ProcessStart
  \/ MarkDownloading
  \/ \E message \in UpstreamErrors : ItemFetchFails(message)
  \/ \E docs \in Outcomes, examples \in Outcomes : ItemSucceeds(docs, examples)
  \/ FailUpdate
  \/ Complete
  \/ Catch
  \/ Crash

\* sequential use of the queue with a process that may die and restart
Spec == Init /\ [][Next]_vars

NextStorage ==
  \/ Next
  \/ \E message \in StorageErrors : MarkWriteFails(message)
  \/ \E docs \in Outcomes, examples \in Outcomes, stage \in {"copy", "save"},
        message \in StorageErrors : ItemCacheAddFails(docs, examples, stage, message)
  \/ \E docs \in Outcomes, examples \in Outcomes, message \in StorageErrors :
       ItemTempRemoveFails(docs, examples, message)
  \/ \E message \in StorageErrors : FailUpdateWriteFails(message)
  \/ \E message \in StorageErrors : CompleteWriteFails(message)
  \/ \E message \in StorageErrors : CatchWriteFails(message)

\* the same, on a filesystem whose writes may fail
SpecStorage == Init /\ [][NextStorage]_vars

(***************************************************************************)
(* Another caller adds to or removes from the queue while a process()      *)
(* call is between two of its awaits.                                      *)
(***************************************************************************)
\* Queue.add, called while process() is in flight
AddDuring(pkg, priority, now) ==
  /\ pc \notin Quiescent
  /\ \A i \in 1..Len(loadQueue(queueFile)) : loadQueue(queueFile)[i].queuedAt <= now
  /\ LET q == loadQueue(queueFile)
         queueItem == [id |-> nextId, packageName |-> pkg.name,
                       version |-> pkg.version, manager |-> pkg.manager,
                       priority |-> priority, queuedAt |-> now,
                       status |-> "pending", error |-> ""]
     IN IF existing(q, pkg) # 0
        THEN /\ lastCall' = [op |-> "add", pkg |-> pkg, id |-> 0, ok |-> FALSE]
             /\ UNCHANGED <<queueFile, nextId>>
        ELSE /\ nextId <= MaxAdds
             /\ queueFile' = saveQueue(Append(q, queueItem))
             /\ nextId' = nextId + 1
             /\ lastCall' = [op |-> "add", pkg |-> pkg, id |-> nextId, ok |-> TRUE]
  /\ UNCHANGED <<adds, flightVars, procVars, histVars, cacheVars, temp>>

\* Queue.remove, called while process() is in flight
RemoveDuring(id) ==
  /\ pc \notin Quiescent
  /\ LET q == loadQueue(queueFile)
         index == FirstIndex({ i \in 1..Len(q) : q[i].id = id })
     IN IF index = 0
        THEN /\ lastCall' = [op |-> "remove", pkg |-> NoPkg, id |-> id, ok |-> FALSE]
             /\ UNCHANGED queueFile
        ELSE /\ queueFile' = saveQueue(RemoveAt(q, index))
             /\ lastCall' = [op |-> "remove", pkg |-> NoPkg, id |-> id, ok |-> TRUE]
  /\ UNCHANGED <<nextId, adds, flightVars, procVars, histVars, cacheVars, temp>>

NextDuring ==
  \/ \E pkg \in Packages : Add(pkg, 0, 0)
  \/ ProcessStart
  \/ MarkDownloading
  \/ \E message \in UpstreamErrors : ItemFetchFails(message)
  \/ \E docs \in Outcomes, examples \in Outcomes : ItemSucceeds(docs, examples)
  \/ FailUpdate
  \/ Complete
  \/ Catch
  \/ \E pkg \in Packages : AddDuring(pkg, 0, 0)
  \/ \E id \in QueueIds : RemoveDuring(id)

\* a process() pass with another caller of add and remove beside it
SpecDuring == Init /\ [][NextDuring]_vars

(***************************************************************************)
(* A second process() call on the same queue file, started while the first *)
(* may still be running.  Its locals are held in `other`; its SyncResult   *)
(* is not kept.                                                            *)
(***************************************************************************)
\* the item the loop of the second call is at
OtherIndex == other.pendingItems[other.cur]
OtherItem == other.queue[OtherIndex]

\* the loop of the second call: on to the next item or return
OtherAdvance(q) ==
  [other EXCEPT !.queue = q, !.cur = @ + 1,
                !.pc = IF other.cur < Len(other.pendingItems) THEN "mark" ELSE "done"]

\* process() lines 345-354 of the second call
OtherStart ==
  /\ other.pc \in {"idle", "done"}
  /\ LET q == loadQueue(queueFile)
     IN other' = [pc |-> IF pendingFilter(q) = <<>> THEN "done" ELSE "mark",
                  queue |-> q, pendingItems |-> pendingFilter(q),
                  cur |-> IF pendingFilter(q) = <<>> THEN 0 ELSE 1, thrown |-> ""]
  /\ UNCHANGED <<queueFile, nextId, adds, adding, lastCall, procVars, histVars, cacheVars, temp>>

\* processItem lines 404-405 of the second call
OtherMark ==
  /\ other.pc = "mark"
  /\ LET q == [other.queue EXCEPT ![OtherIndex].status = "downloading"]
     IN /\ queueFile' = updateItem(queueFile, q[OtherIndex])
        /\ other' = [other EXCEPT !.queue = q, !.pc = "fetch"]
  /\ UNCHANGED <<nextId, adds, adding, lastCall, procVars, histVars, cacheVars, temp>>

\* processItem lines 408-411 of the second call throw
OtherFetchFails(message) ==
  /\ other.pc = "fetch"
  /\ fetched' = [fetched EXCEPT ![OtherItem.id] = @ + 1]
  /\ other' = [other EXCEPT !.queue[OtherIndex].status = "failed",
                            !.queue[OtherIndex].error = message,
                            !.thrown = message, !.pc = "failUpdate"]
  /\ UNCHANGED <<queueFile, nextId, adds, adding, lastCall, procVars, warnings, requests, ids,
                 cacheVars, temp>>

\* processItem lines 408-443 of the second call run through (the package has
\* neither documentation nor examples)
OtherSucceeds ==
  /\ other.pc = "fetch"
  /\ fetched' = [fetched EXCEPT ![OtherItem.id] = @ + 1]
  /\ CacheAddEffect(PkgOf(OtherItem), Artifact(PkgOf(OtherItem)), FALSE, FALSE)
  /\ other' = [other EXCEPT !.pc = "complete"]
  /\ UNCHANGED <<queueFile, nextId, adds, adding, lastCall, procVars, warnings, requests, ids,
                 temp>>

\* processItem lines 446-449 of the second call
OtherFailUpdate ==
  /\ other.pc = "failUpdate"
  /\ queueFile' = updateItem(queueFile, OtherItem)
  /\ other' = [other EXCEPT !.pc = "catch"]
  /\ UNCHANGED <<nextId, adds, adding, lastCall, procVars, histVars, cacheVars, temp>>

\* process() lines 359-362 of the second call
OtherComplete ==
  /\ other.pc = "complete"
  /\ LET q == [other.queue EXCEPT ![OtherIndex].status = "completed"]
     IN /\ queueFile' = saveQueue(q)
        /\ other' = OtherAdvance(q)
  /\ UNCHANGED <<nextId, adds, adding, lastCall, procVars, histVars, cacheVars, temp>>

\* process() lines 364-371 of the second call
OtherCatch ==
  /\ other.pc = "catch"
  /\ LET q == [other.queue EXCEPT ![OtherIndex].status = "failed",
                                  ![OtherIndex].error = other.thrown]
     IN /\ queueFile' = saveQueue(q)
        /\ other' = OtherAdvance(q)
  /\ UNCHANGED <<nextId, adds, adding, lastCall, procVars, histVars, cacheVars, temp>>

NextOverlap ==
  \/ \E pkg \in Packages : Add(pkg, 0, 0)
  \/ ProcessStart
  \/ MarkDownloading
  \/ \E message \in UpstreamErrors : ItemFetchFails(message)
  \/ ItemSucceeds("empty", "empty")
  \/ FailUpdate
  \/ Complete
  \/ Catch
  \/ OtherStart
  \/ OtherMark
  \/ \E message \in UpstreamErrors : OtherFetchFails(message)
  \/ OtherSucceeds
  \/ OtherFailUpdate
  \/ OtherComplete
  \/ OtherCatch

\* two process() calls on one queue file
SpecOverlap == Init /\ [][NextOverlap]_vars

\* queue.json is cut off after its first element (fs.writeFile is not
\* atomic; the file is edited by hand): what is left does not parse
Corrupt ==
  /\ pc \in Quiescent
  /\ queueFile.valid
  /\ queueFile.items # <<>>
  /\ queueFile' = [valid |-> FALSE, items |-> <<queueFile.items[1]>>]
  /\ lastCall' = [op |-> "corrupt", pkg |-> NoPkg, id |-> 0, ok |-> TRUE]
  /\ ProcIdle
  /\ UNCHANGED <<nextId, adds, flightVars, histVars, cacheVars, temp>>

NextCorrupt ==
  \/ Next
  \/ Corrupt

\* sequential use of the queue over a file that may become unparseable
SpecCorrupt == Init /\ [][NextCorrupt]_vars

(***************************************************************************)
(* Properties.                                                             *)
(***************************************************************************)
\* the entries of the persisted queue
FileItems == loadQueue(queueFile)

\* positions of the persisted entries of pkg that are pending or downloading
ActiveEntries(pkg) ==
  { i \in 1..Len(FileItems) :
      PkgOf(FileItems[i]) = pkg /\ FileItems[i].status \in {"pending", "downloading"} }

\* positions of the persisted entries of pkg that are completed or failed
TerminalEntries(pkg) ==
  { i \in 1..Len(FileItems) :
      PkgOf(FileItems[i]) = pkg /\ FileItems[i].status \in {"completed", "failed"} }

\* the persisted entry with the given queue id, as a set
FileEntry(id) == { FileItems[i] : i \in { j \in 1..Len(FileItems) : FileItems[j].id = id } }

\* number of items of the pass that process() has started on
Started ==
  IF pc \in {"fetch", "failUpdate", "complete", "catch", "aborted"} THEN cur
  ELSE IF pc \in {"mark", "done"} THEN cur - 1
  ELSE 0

\* the k-th item of the pass, as process() holds it
PassItem(k) == queue[pendingItems[k]]

\* a comes before b in the order of Queue.list: priority descending, then
\* queuedAt ascending
ListedBefore(a, b) ==
  \/ a.priority > b.priority
  \/ a.priority = b.priority /\ a.queuedAt <= b.queuedAt

\* C1: an add is rejected only if an entry of the same (name, version,
\* manager) is pending or downloading; entries that are completed or failed
\* do not block it.
C1_ReAddAfterTerminalSucceeds ==
  (lastCall.op = "add" /\ ~lastCall.ok) => ActiveEntries(lastCall.pkg) # {}

\* C2: the items process() has started on so far were started in the order
\* of Queue.list: higher priority first, equal priority by earlier queuedAt.
C2_ProcessInPriorityOrder ==
  \A i \in 1..Started : \A j \in 1..Started :
    i < j => ListedBefore(PassItem(i), PassItem(j))

\* C3: at every point where the process may stop, the persisted queue shows
\* every item the pass has resolved as completed or failed, and at most one
\* entry as downloading.
C3_CrashLosesAtMostInFlight ==
  /\ \A k \in 1..Len(pendingItems) :
       k < cur => \A e \in FileEntry(PassItem(k).id) : e.status \in {"completed", "failed"}
  /\ Cardinality({ i \in 1..Len(FileItems) : FileItems[i].status = "downloading" }) <= 1

\* C4: an add of a package that has a pending or downloading entry is
\* rejected and leaves the persisted queue as it was.
C4_AddRejectsDuplicate ==
  [][ (/\ lastCall'.op = "add"
       /\ lastCall' # lastCall
       /\ ActiveEntries(lastCall'.pkg) # {})
      => (~lastCall'.ok /\ queueFile' = queueFile) ]_vars

C4_Witness ==
  /\ lastCall.op = "add"
  /\ ~lastCall.ok
  /\ \E i \in ActiveEntries(lastCall.pkg) : FileItems[i].status = "downloading"

\* C5: the persisted queue never holds two entries of the same (name,
\* version, manager) that are pending or downloading.
C5_OneActiveEntryPerPackage ==
  \A pkg \in Packages : Cardinality(ActiveEntries(pkg)) <= 1

C5_Witness ==
  /\ lastCall.op = "add"
  /\ lastCall.ok
  /\ ActiveEntries(lastCall.pkg) # {}
  /\ TerminalEntries([lastCall.pkg EXCEPT !.manager = "pip"]) # {}
  /\ lastCall.pkg.manager = "npm"

\* C6: an item whose getPackageInfo or downloadPackage failed is, once
\* resolved, still in the persisted queue with status failed and the error's
\* message, and a pass that has returned has handled every item of its
\* snapshot.
C6_UpstreamFailureIsolated ==
  /\ \A k \in 1..Len(pendingItems) :
       (k < cur /\ outcome[PassItem(k).id] \in UpstreamErrors) =>
         /\ FileEntry(PassItem(k).id) # {}
         /\ \A e \in FileEntry(PassItem(k).id) :
              e.status = "failed" /\ e.error = outcome[PassItem(k).id]
  /\ pc = "done" => \A k \in 1..Len(pendingItems) : outcome[PassItem(k).id] # ""

C6_Witness ==
  /\ pc = "done"
  /\ Len(pendingItems) = 2
  /\ outcome[PassItem(1).id] \in UpstreamErrors
  /\ outcome[PassItem(2).id] = "ok"

\* C7: a failed write during a pass never ends process() without a result.
C7_StorageErrorNeverAborts == pc # "aborted"

C9_InterruptedDownloadRecovered ==
  pc = "done" => \A i \in 1..Len(FileItems) : FileItems[i].status # "downloading"

\* C10: Cache.add of a package keeps the records of every other (name,
\* version, manager).
C10_SaveReplacesOnlySameTriple ==
  [][ lastCall'.op = "cache.add" =>
        \A r \in db : Triple(r) # lastCall'.pkg => \E r2 \in db' : Triple(r2) = Triple(r) ]_vars

\* C11: an item process() has completed is persisted with status completed,
\* Cache.exists of its name and version is true, and the downloaded count of
\* the pass covers it.
C11_CompletedIsCached ==
  LET Done == { k \in 1..Len(pendingItems) : k < cur /\ outcome[PassItem(k).id] = "ok" }
  IN /\ \A k \in Done :
          /\ PassItem(k).status = "completed"
          /\ FileEntry(PassItem(k).id) # {}
          /\ \A e \in FileEntry(PassItem(k).id) : e.status = "completed"
          /\ exists(PassItem(k).packageName, PassItem(k).version)
     /\ result.downloaded = Cardinality(Done)

C11_Witness ==
  /\ pc = "done"
  /\ result.downloaded = 2
  /\ \A k \in 1..2 : exists(PassItem(k).packageName, PassItem(k).version)

\* the items of the pass whose entry ended in the given status
Ended(status) == { k \in 1..Len(pendingItems) : PassItem(k).status = status }

\* the error lines of the failed items of the pass, in the order of the pass
FailedLines ==
  LET F[k \in 0..Len(pendingItems)] ==
        IF k = 0 THEN <<>>
        ELSE IF PassItem(k).status = "failed"
             THEN Append(F[k - 1], errorLine(PassItem(k), PassItem(k).error))
             ELSE F[k - 1]
  IN F[Len(pendingItems)]

\* C12: the SyncResult process() returns counts the completed items in
\* downloaded and the failed ones in failed, the two add up to the number of
\* items that were pending at the start, errors holds the line of each failed
\* item, and success is (failed = 0).
C12_SyncResultConsistent ==
  pc = "done" =>
    /\ result.downloaded = Cardinality(Ended("completed"))
    /\ result.failed = Cardinality(Ended("failed"))
    /\ result.downloaded + result.failed = Len(pendingItems)
    /\ result.errors = FailedLines
    /\ result.success = (result.failed = 0)

\* the item in hand is committed to the cache, without the documentation or
\* the examples whose fetch was reported as failed
CommittedWithoutWarned ==
  /\ exists(Item.packageName, Item.version)
  /\ \A r \in getPackage(db, Item.packageName, Item.version) :
       /\ "docs" \in warnings => r.documentationPath = NoPath
       /\ "examples" \in warnings => r.examplesPath = NoPath

\* C13: an item whose getDocumentation or getExamples failed is on the success
\* path: its artifact is committed by Cache.add without the missing
\* documentation or examples, and the step that resolves it persists it as
\* completed.
C13_DocsFailureNotFatal ==
  [][ /\ warnings' # {} => (pc' = "complete" /\ CommittedWithoutWarned')
      /\ (warnings # {} /\ pc' # "idle") =>
           LET after == loadQueue(queueFile')
               at == { i \in 1..Len(after) : after[i].id = Item.id }
           IN at # {} /\ \A i \in at : after[i].status = "completed" ]_vars

C13_Witness ==
  /\ pc = "complete"
  /\ warnings = {"docs", "examples"}
  /\ CommittedWithoutWarned

\* C14: Queue.list returns every persisted entry once, higher priority first
\* and, among equal priorities, earlier queuedAt first, whatever the order of
\* the entries in the file.
C14_ListSorted ==
  LET l == queueList(queueFile)
  IN /\ Len(l) = Len(FileItems)
     /\ \A i \in 1..Len(FileItems) : \E j \in 1..Len(l) : l[j] = FileItems[i]
     /\ \A i \in 1..Len(l) : \A j \in 1..Len(l) :
          i < j => /\ l[i].priority >= l[j].priority
                   /\ l[i].priority = l[j].priority => l[i].queuedAt <= l[j].queuedAt

C14_Witness ==
  /\ Len(FileItems) = 2
  /\ FileItems[1].priority < FileItems[2].priority
  /\ FileItems[1].queuedAt < FileItems[2].queuedAt
  /\ queueList(queueFile) = <<FileItems[2], FileItems[1]>>

\* C15: when add calls for distinct packages that were started without
\* awaiting one another have all finished, each of them has returned an id
\* and the entry of each is in the persisted queue.
C15_ConcurrentAddsAllKept ==
  (/\ \A c \in adds : c.at \in {"returned", "rejected"}
   /\ \A c \in adds : \A d \in adds : c # d => PkgOf(c.item) # PkgOf(d.item))
  => \A c \in adds : c.at = "returned" /\ FileEntry(c.item.id) # {}

\* the entry Queue.add builds
NewItem(id, pkg, priority, now) ==
  [id |-> id, packageName |-> pkg.name, version |-> pkg.version,
   manager |-> pkg.manager, priority |-> priority, queuedAt |-> now,
   status |-> "pending", error |-> ""]

AlreadyCached(item) ==
  /\ exists(item.packageName, item.version)
  /\ \E r \in getPackage(db, item.packageName, item.version) : r.manager = item.manager

\* C17: process() (which has no force option) fetches an entry from its
\* package source only if the entry's package is not in the cache yet.
C17_SyncSkipsCached ==
  [][ \A id \in QueueIds :
        fetched'[id] # fetched[id] => \A e \in FileEntry(id) : ~AlreadyCached(e) ]_vars

\* C18: an install of a package that is in the cache succeeds whether or not
\* the registry answers, and asks no registry for anything.
C18_InstallNeedsNoNetwork ==
  [][ \A packageName \in Names : \A reachable \in BOOLEAN :
        (Install(packageName, reachable) /\ findCachedPackage(db, packageName) # {})
          => (lastCall'.ok /\ requests' = requests) ]_vars

\* the numbers of a version string: its runs of digits, read as decimals
Numbers(v) ==
  LET P[i \in 0..Len(v)] ==
        IF i = 0 THEN [before |-> <<>>, run |-> 0]
        ELSE IF v[i] = "."
             THEN [before |-> Append(P[i - 1].before, P[i - 1].run), run |-> 0]
             ELSE [before |-> P[i - 1].before, run |-> P[i - 1].run * 10 + Rank(v[i]) - 1]
  IN Append(P[Len(v)].before, P[Len(v)].run)

\* a ranks above b under numeric-aware comparison: at the first number in
\* which they differ, a has the greater one
RanksAbove(a, b) ==
  LET x == Numbers(a)
      y == Numbers(b)
      n == IF Len(x) < Len(y) THEN Len(x) ELSE Len(y)
      i == FirstIndex({ k \in 1..n : x[k] # y[k] })
  IN IF i = 0 THEN Len(x) > Len(y) ELSE x[i] > y[i]

\* C19: an install that found the package in the cache went to a cached
\* record of that name which no other record of the name ranks above under
\* numeric-aware comparison of the versions (10.0.0 above 9.0.0), with that
\* record's manager.
C19_InstallPicksHighestVersion ==
  (lastCall.op = "install" /\ lastCall.pkg.manager # "") =>
    /\ \E r \in db : Triple(r) = lastCall.pkg
    /\ \A r \in db : r.name = lastCall.pkg.name => ~RanksAbove(r.version, lastCall.pkg.version)

\* C20: every Cache.add of a package saves and returns the id the first add
\* of that (name, version, manager) returned, whatever the content of the
\* artifact and whether or not the package was removed in between.
C20_IdDependsOnIdentityOnly ==
  [][ lastCall'.op = "cache.add" =>
        \A e \in ids : e.pkg = lastCall'.pkg =>
          \E r \in db' : Triple(r) = e.pkg /\ r.id = e.id ]_vars

C20_Witness ==
  /\ lastCall.op = "cache.add"
  /\ \E e \in ids : \E r \in db :
       /\ e.pkg = lastCall.pkg
       /\ e.removed
       /\ Triple(r) = e.pkg
       /\ r.checksum # calculateHash(e.bytes)
       /\ r.id = e.id

\* the (name, version) of two records or packages differ
OtherPackage(a, b) == a.name # b.name \/ a.version # b.version

PathPresent(path) ==
  \/ \E f \in pkgFiles : <<"packages", f.id>> = path
  \/ \E d \in docsDirs : <<"docs", d>> = path
  \/ \E d \in exDirs : <<"examples", d>> = path

\* C22: Cache.remove of a (name, version) without record returns false and
\* leaves table and directories as they were; with a record it returns true,
\* and afterwards get(name, version) finds nothing and the artifact and the
\* recorded documentation and examples paths of the record are gone.
C22_CacheRemove ==
  [][ lastCall'.op = "cache.remove" =>
        LET cached == getPackage(db, lastCall'.pkg.name, lastCall'.pkg.version)
        IN IF cached = {}
           THEN ~lastCall'.ok /\ UNCHANGED cacheVars
           ELSE /\ lastCall'.ok
                /\ getPackage(db', lastCall'.pkg.name, lastCall'.pkg.version) = {}
                /\ \A c \in cached :
                     /\ ~PathPresent(c.localPath)'
                     /\ c.documentationPath # NoPath => ~PathPresent(c.documentationPath)'
                     /\ c.examplesPath # NoPath => ~PathPresent(c.examplesPath)' ]_vars

C22_Witness ==
  /\ lastCall.op = "cache.remove"
  /\ lastCall.ok
  /\ getPackage(db, lastCall.pkg.name, lastCall.pkg.version) = {}
  /\ ~PathPresent(<<"packages", generateId(lastCall.pkg.name, lastCall.pkg.version)>>)
  /\ ~PathPresent(<<"docs", generateId(lastCall.pkg.name, lastCall.pkg.version)>>)
  /\ \E e \in ids : e.removed /\ e.pkg.name = lastCall.pkg.name
  /\ \E r \in db : r.documentationPath # NoPath /\ PathPresent(r.documentationPath)

\* C23: no record is left behind by a Cache.remove of its (name, version),
\* also when a file deletion of that remove failed.
C23_RemoveDropsRecordDespiteDeleteFailure ==
  [][ lastCall'.op = "cache.remove" =>
        getPackage(db', lastCall'.pkg.name, lastCall'.pkg.version) = {} ]_vars

\* C24: Cache.exists(name, version) returns true exactly if the table has a
\* record of (name, version) and the artifact file of the record is on disk,
\* it leaves table and directories as they were, and it is false right after
\* the artifact was deleted by hand.
C24_ExistsReflectsDisk ==
  /\ [][ lastCall'.op = "cache.exists" =>
           /\ lastCall'.ok =
                (\E r \in getPackage(db, lastCall'.pkg.name, lastCall'.pkg.version) :
                   PathPresent(r.localPath))
           /\ UNCHANGED cacheVars ]_vars
  /\ [](lastCall.op = "fs.remove" => ~exists(lastCall.pkg.name, lastCall.pkg.version))

C24_Witness ==
  /\ lastCall.op = "cache.exists"
  /\ ~lastCall.ok
  /\ getPackage(db, lastCall.pkg.name, lastCall.pkg.version) # {}

\* C25: after Cache.cleanup every file in packages/ and every directory in
\* docs/ and examples/ is named by the id of a record of the table, and
\* every path a record refers to that was there before is still there.
C25_CleanupLeavesOnlyRecorded ==
  [][ lastCall'.op = "cache.cleanup" =>
        /\ \A f \in pkgFiles' : \E r \in db' : r.id = f.id
        /\ \A d \in docsDirs' \cup exDirs' : \E r \in db' : r.id = d
        /\ \A r \in db' :
             \A path \in {r.localPath, r.documentationPath, r.examplesPath} :
               PathPresent(path) => PathPresent(path)' ]_vars

\* after a cleanup the artifact, the documentation and the examples of a
\* record are still there
C25_Witness ==
  /\ lastCall.op = "cache.cleanup"
  /\ \E r \in db : /\ PathPresent(r.localPath)
                   /\ r.documentationPath # NoPath /\ PathPresent(r.documentationPath)
                   /\ r.examplesPath # NoPath /\ PathPresent(r.examplesPath)

\* C26: Cache.cleanup leaves the table as it was, records whose artifact
\* file is missing included.
C26_CleanupKeepsRecords ==
  [][ lastCall'.op = "cache.cleanup" => db' = db ]_vars

\* after a cleanup the table still holds a record whose artifact is missing
C26_Witness ==
  /\ lastCall.op = "cache.cleanup"
  /\ \E r \in db : ~PathPresent(r.localPath)

\* the size fields of the records, added up record by record over the
\* (name, version) keys of the table
RECURSIVE SizeOfKeys(_)
SizeOfKeys(keys) ==
  IF keys = {} THEN 0
  ELSE LET k == CHOOSE x \in keys : TRUE
           rows == getPackage(db, k[1], k[2])
       IN (IF rows = {} THEN 0 ELSE (CHOOSE r \in rows : TRUE).size)
            + SizeOfKeys(keys \ {k})

\* the bytes of the artifact files that records of the table refer to
RECURSIVE ArtifactBytes(_)
ArtifactBytes(files) ==
  IF files = {} THEN 0
  ELSE LET f == CHOOSE x \in files : TRUE
       IN (IF \E r \in db : r.localPath = <<"packages", f.id>>
           THEN getFileSize(f.bytes) ELSE 0) + ArtifactBytes(files \ {f})

\* C27: after any adds and removes Cache.getSize() is the sum of the size
\* fields of the records list() returns, which is the size of the artifact
\* files alone, and it is 0 for an empty cache.
C27_SizeIsSumOfRecords ==
  /\ getSize = SizeOfKeys({ <<r.name, r.version>> : r \in list })
  /\ getSize = ArtifactBytes(pkgFiles)
  /\ list = {} => getSize = 0

\* two records of different sizes, with documentation, after a remove
C27_Witness ==
  /\ getSize = 3
  /\ Cardinality(list) = 2
  /\ docsDirs # {}
  /\ \E e \in ids : e.removed

\* C28: Cache.add with a docsPath or examplesPath where nothing is succeeds,
\* stores the artifact and the record, and the record has no
\* documentationPath / examplesPath for the missing source.
C28_MissingSourcePathIgnored ==
  [][ (/\ lastCall'.op = "cache.add"
       /\ "docsPath" \in DOMAIN lastCall'
       /\ "missing" \in {lastCall'.docsPath, lastCall'.examplesPath}) =>
        /\ lastCall'.ok
        /\ \E r \in db' :
             /\ Triple(r) = lastCall'.pkg
             /\ PathPresent(r.localPath)'
             /\ lastCall'.docsPath = "missing" => r.documentationPath = NoPath
             /\ lastCall'.examplesPath = "missing" => r.examplesPath = NoPath ]_vars

\* an add with a docsPath where nothing is and an existing examplesPath
C28_Witness ==
  /\ lastCall.op = "cache.add"
  /\ "docsPath" \in DOMAIN lastCall
  /\ lastCall.docsPath = "missing"
  /\ lastCall.examplesPath = "present"
  /\ \E r \in db : /\ Triple(r) = lastCall.pkg
                   /\ r.documentationPath = NoPath
                   /\ r.examplesPath # NoPath

\* C29: Queue.remove(id) of an id that is in the queue returns true and
\* leaves the persisted queue without that entry, whatever its status, and
\* with every other entry as it was and in place; for an id that is not in
\* the queue it returns false and the persisted queue is as it was.
C29_RemoveExactlyOne ==
  [][ (lastCall'.op = "remove" /\ (lastCall' # lastCall \/ pc' = "idle")) =>
        LET before == loadQueue(queueFile)
            after == loadQueue(queueFile')
            id == lastCall'.id
            kept == SelectSeq(before, LAMBDA item : item.id # id)
        IN IF \E i \in 1..Len(before) : before[i].id = id
           THEN /\ lastCall'.ok
                /\ after = kept
                /\ Len(after) = Len(before) - 1
           ELSE /\ ~lastCall'.ok
                /\ queueFile' = queueFile ]_vars

\* the entry of a handled item has been removed and another entry is left
C29_Witness ==
  /\ lastCall.op = "remove"
  /\ lastCall.ok
  /\ fetched[lastCall.id] = 1
  /\ Len(FileItems) >= 1
  /\ \A i \in 1..Len(FileItems) : FileItems[i].id > lastCall.id

\* C30: Queue.getStatus() gives for pending, downloading, completed and
\* failed the number of entries of the persisted queue with that status, and
\* the four numbers add up to the number of entries list() returns.
C30_StatusCountsAddUp ==
  LET counts == getStatus(queueFile)
  IN /\ \A status \in DOMAIN counts :
          counts[status] = Cardinality({ i \in 1..Len(FileItems) : FileItems[i].status = status })
     /\ counts.pending + counts.downloading + counts.completed + counts.failed
          = Len(queueList(queueFile))

\* one entry is being downloaded and another has failed
C30_Witness ==
  /\ getStatus(queueFile).downloading = 1
  /\ getStatus(queueFile).failed = 1

\* C31: over a queue file that is missing or does not parse, list() returns
\* no entries, getStatus() returns four zeros, process() returns an empty
\* successful result without fetching, and add succeeds and leaves a queue
\* of the one new entry.
C31_UnparseableFileIsEmptyQueue ==
  /\ [](~queueFile.valid =>
          /\ queueList(queueFile) = <<>>
          /\ getStatus(queueFile) =
               [pending |-> 0, downloading |-> 0, completed |-> 0, failed |-> 0])
  /\ [][ (~queueFile.valid /\ pc \in Quiescent /\ pc' \notin {"idle", "aborted"}) =>
           (pc' = "done" /\ result' = ZeroResult /\ thrown' = ""
              /\ fetched' = fetched /\ queueFile' = queueFile) ]_vars
  /\ [][ (~queueFile.valid /\ lastCall'.op = "add" /\ lastCall' # lastCall) =>
           /\ lastCall'.ok
           /\ Len(loadQueue(queueFile')) = 1
           /\ PkgOf(loadQueue(queueFile')[1]) = lastCall'.pkg
           /\ loadQueue(queueFile')[1].status = "pending" ]_vars

\* process() has returned over a file that was cut off
C31_Witness ==
  /\ ~queueFile.valid
  /\ queueFile.items # <<>>
  /\ pc = "done"
  /\ result = ZeroResult

\* C32: once the processing of an entry has ended, with success or with a
\* failure at any step, none of the temporary copies made for it (artifact,
\* docs, examples) is left.
C32_TempCopiesRemoved ==
  \A id \in QueueIds :
    outcome[id] # "" =>
      \A k \in 1..Len(pendingItems) :
        PassItem(k).id = id =>
          \A copy \in TempCopies(PassItem(k), "ok", "ok") : copy \notin temp

\* the record of pkg and the artifact file it points to carry the same bytes
RecordMatchesArtifact(pkg) ==
  \A r \in db :
    Triple(r) = pkg =>
      \A f \in pkgFiles :
        <<"packages", f.id>> = r.localPath =>
          r.checksum = calculateHash(f.bytes) /\ r.size = getFileSize(f.bytes)

\* C33: the checksum and the size of the record Cache.add saves are those of
\* the bytes it stored in the cache, also when the source file was rewritten
\* while the call was running.
C33_RecordMatchesStoredBytes ==
  [][ (adding.stage = "save" /\ adding'.stage = "none") =>
        \E pkg \in StepPackages : pkg = adding.info /\ RecordMatchesArtifact(pkg)' ]_vars

\* the ids of the items of the pass
PassIds == { PassItem(k).id : k \in 1..Len(pendingItems) }

\* C34: a pass takes the entries that are pending in the file when it
\* starts, keeps that list while it runs whatever is added meanwhile,
\* fetches only the entry of the list it is at, and has handled every entry
\* of the list when it returns.
C34_PassFetchesItsSnapshot ==
  /\ [][ (pc \in Quiescent /\ pc' \in {"mark", "done"}) =>
           { queue'[pendingItems'[k]].id : k \in 1..Len(pendingItems') }
             = { FileItems[i].id : i \in { j \in 1..Len(FileItems) :
                                             FileItems[j].status = "pending" } } ]_vars
  /\ [][ pc \notin Quiescent => pendingItems' = pendingItems ]_vars
  /\ [][ \A id \in QueueIds :
           fetched'[id] # fetched[id] =>
             (cur \in 1..Len(pendingItems) /\ PassItem(cur).id = id) ]_vars
  /\ [](pc = "done" => \A id \in PassIds : outcome[id] # "")

\* a pass has returned; the last call of the other caller was an add that
\* was accepted while the pass ran, and the entry it added was not fetched
C34_Witness ==
  /\ pc = "done"
  /\ PassIds # {}
  /\ lastCall.op = "add"
  /\ lastCall.ok
  /\ lastCall.id \notin PassIds
  /\ fetched[lastCall.id] = 0

\* the ids of the entries of a queue file
FileIds(file) == { loadQueue(file)[i].id : i \in 1..Len(loadQueue(file)) }

\* C35: no step of process() undoes what another caller did to the queue
\* while the pass was running: a write of process() neither drops an entry
\* from the persisted queue nor brings a removed entry back.
C35_ProcessKeepsForeignChanges ==
  [][ (pc \notin Quiescent /\ lastCall' = lastCall) =>
        FileIds(queueFile') = FileIds(queueFile) ]_vars

\* C36: an entry that a pass marks failed has no record committed to the
\* cache by that pass: the step of processItem that saves a record for the
\* item in hand does not end with the item failed.
C36_FailedMeansNotCommitted ==
  [][ (pc = "fetch" /\ db' # db) =>
        (queue'[ItemIndex].status # "failed" /\ outcome'[Item.id] = "ok") ]_vars

\* C37: a directory of docs/ (of examples/) that is named by the id of a
\* record is there only if that record has a documentationPath (an
\* examplesPath).
C37_ExtrasOnlyIfRecorded ==
  \A r \in db :
    /\ r.id \in docsDirs => r.documentationPath # NoPath
    /\ r.id \in exDirs => r.examplesPath # NoPath

\* C38: with two process() calls on one queue file, no entry is fetched from
\* its package source a second time, and no entry that is completed or
\* failed in the file is written back as downloading.
C38_OverlapFetchesOnce ==
  /\ [][ \A id \in QueueIds : fetched'[id] # fetched[id] => fetched[id] = 0 ]_vars
  /\ [][ \A id \in QueueIds :
           \A e \in FileEntry(id) :
             e.status \in {"completed", "failed"} =>
               \A i \in 1..Len(loadQueue(queueFile')) :
                 loadQueue(queueFile')[i].id = id =>
                   loadQueue(queueFile')[i].status # "downloading" ]_vars

\* C39: when a Cache.add call has saved its record, with a cleanup having run
\* between two of its awaits, the artifact the record points to is on disk.
C39_CleanupSparesArtifactBeingAdded ==
  [][ (adding.stage = "save" /\ adding'.stage = "none" /\ lastCall.op = "cache.cleanup") =>
        \A r \in db' : r.id = addingRecord.id => PathPresent(r.localPath)' ]_vars

\* C40: after any adds and removes Zembil.getStats() gives as totalPackages
\* the number of records of cache.list() and as totalSize cache.getSize(),
\* and 0 for both over an empty table.
C40_StatsAgreeWithCache ==
  /\ getStats.totalPackages = Cardinality(list)
  /\ getStats.totalSize = getSize
  /\ list = {} => getStats = [totalPackages |-> 0, totalSize |-> 0]

\* two records of different sizes, after a remove
C40_Witness ==
  /\ getStats = [totalPackages |-> 2, totalSize |-> 3]
  /\ \E e \in ids : e.removed
====
